---- MODULE Spec2Model ----
(***************************************************************************)
(* A model of the job-normalization and filtering pipeline of             *)
(* utils/data_processor.py.  A data frame is a sequence of job records;    *)
(* a text value is a sequence of one-character strings, so that lower(),   *)
(* strip(), replace(), re.sub() and the substring tests are computed       *)
(* character by character as Python computes them.  A missing value is     *)
(* one of the two nulls a pandas object column can hold, None and NaN.     *)
(* The concurrent fetches of run_job_search in enhanced_main.py, whose     *)
(* merged result is the frame handed to process_jobs, are the futures.     *)
(***************************************************************************)
EXTENDS Integers, Sequences, FiniteSets, TLC

VARIABLES pc, frame, df, prev, arg, futures

vars == <<pc, frame, df, prev, arg, futures>>

---------------------------------------------------------------------------
(* Text values                                                             *)

None == <<"None">>
NaN == <<"NaN">>
EmptyStr == <<>>

IsNull(v) == v = None \/ v = NaN

\* Python truthiness of a cell: None and '' are falsy, NaN (a float) is truthy
Truthy(v) == v # None /\ v # EmptyStr

UpperChars == <<"A","B","C","D","E","F","G","H","I","J","K","L","M","N","O","P","Q","R","S","T","U","V","W","X","Y","Z">>
LowerChars == <<"a","b","c","d","e","f","g","h","i","j","k","l","m","n","o","p","q","r","s","t","u","v","w","x","y","z">>
DigitChars == <<"0","1","2","3","4","5","6","7","8","9">>

UpperSet == {UpperChars[i] : i \in 1..26}
LowerSet == {LowerChars[i] : i \in 1..26}
DigitSet == {DigitChars[i] : i \in 1..10}
WordSet == UpperSet \cup LowerSet \cup DigitSet \cup {"_"}
SpaceSet == {" "}

ToLowerMap == [c \in UpperSet |-> LowerChars[CHOOSE i \in 1..26 : UpperChars[i] = c]]

LowerChar(c) == IF c \in UpperSet THEN ToLowerMap[c] ELSE c

\* str.lower()
Lower(s) == [i \in 1..Len(s) |-> LowerChar(s[i])]

\* sub in s
Contains(sub, s) ==
    \E i \in 0..(Len(s) - Len(sub)) : \A k \in 1..Len(sub) : s[i + k] = sub[k]

\* s.startswith(p)
StartsWith(s, p) == Len(p) <= Len(s) /\ \A k \in 1..Len(p) : s[k] = p[k]

RECURSIVE Concat(_)
Concat(ss) == IF ss = <<>> THEN <<>> ELSE Head(ss) \o Concat(Tail(ss))

\* s.replace(c, r) for a single character c
Replace(s, c, r) == Concat([i \in 1..Len(s) |-> IF s[i] = c THEN r ELSE <<s[i]>>])

RECURSIVE LStrip(_)
LStrip(s) == IF s # <<>> /\ Head(s) \in SpaceSet THEN LStrip(Tail(s)) ELSE s

RECURSIVE RStrip(_)
RStrip(s) ==
    IF s # <<>> /\ s[Len(s)] \in SpaceSet THEN RStrip(SubSeq(s, 1, Len(s) - 1)) ELSE s

\* str.strip()
Strip(s) == RStrip(LStrip(s))

\* re.sub(r'[^\w\s]', '', s)
StripPunct(s) == SelectSeq(s, LAMBDA c : c \in WordSet \/ c \in SpaceSet)

\* index of the first occurrence of c in s at or after position from, 0 if none
RECURSIVE IndexFrom(_, _, _)
IndexFrom(s, c, from) ==
    IF from > Len(s) THEN 0
    ELSE IF s[from] = c THEN from
    ELSE IndexFrom(s, c, from + 1)

\* re.sub(r'\(.*?\)', '', s): every '(' up to the nearest following ')'
RECURSIVE RemoveParens(_)
RemoveParens(s) ==
    LET i == IndexFrom(s, "(", 1)
        j == IF i = 0 THEN 0 ELSE IndexFrom(s, ")", i + 1)
    IN  IF i = 0 \/ j = 0 THEN s
        ELSE SubSeq(s, 1, i - 1) \o RemoveParens(SubSeq(s, j + 1, Len(s)))

---------------------------------------------------------------------------
(* The literals of the code                                                *)

HttpPrefix == <<"h","t","t","p",":","/","/">>   \* 'http://'
HttpsPrefix == <<"h","t","t","p","s",":","/","/">>   \* 'https://'
IndeedUrl == <<"h","t","t","p","s",":","/","/","i","n",".","i","n","d","e","e","d",".","c","o","m","/","j","o","b","s","?","q","=">>   \* 'https://in.indeed.com/jobs?q='
IndeedLoc == <<"&","l","=">>   \* '&l='
NaukriUrl == <<"h","t","t","p","s",":","/","/","w","w","w",".","n","a","u","k","r","i",".","c","o","m","/","j","o","b","s","-","i","n","-">>   \* 'https://www.naukri.com/jobs-in-'
NaukriKey == <<"?","k","e","y","w","o","r","d","s","e","a","r","c","h","=">>   \* '?keywordsearch='
LinkedInUrl == <<"h","t","t","p","s",":","/","/","w","w","w",".","l","i","n","k","e","d","i","n",".","c","o","m","/","j","o","b","s","/","s","e","a","r","c","h","/","?","k","e","y","w","o","r","d","s","=">>   \* 'https://www.linkedin.com/jobs/search/?keywords='
LocationParam == <<"&","l","o","c","a","t","i","o","n","=">>   \* '&location='
FounditUrl == <<"h","t","t","p","s",":","/","/","w","w","w",".","f","o","u","n","d","i","t",".","i","n","/","s","r","p","/","r","e","s","u","l","t","s","?","k","e","y","w","o","r","d","=">>   \* 'https://www.foundit.in/srp/results?keyword='
GoogleUrl == <<"h","t","t","p","s",":","/","/","w","w","w",".","g","o","o","g","l","e",".","c","o","m","/","s","e","a","r","c","h","?","q","=">>   \* 'https://www.google.com/search?q='
GoogleJobsIn == <<"+","j","o","b","s","+","i","n","+">>   \* '+jobs+in+'
DefaultLocation == <<"B","a","n","g","a","l","o","r","e">>   \* 'Bangalore'
DefaultDate == <<"R","e","c","e","n","t">>   \* 'Recent'
DefaultCompany == <<"U","n","k","n","o","w","n">>   \* 'Unknown'
SrcIndeed == <<"I","n","d","e","e","d">>   \* 'Indeed'
SrcNaukri == <<"N","a","u","k","r","i">>   \* 'Naukri'
SrcLinkedIn == <<"L","i","n","k","e","d","I","n">>   \* 'LinkedIn'
SrcFoundit == <<"F","o","u","n","d","i","t">>   \* 'Foundit'
T_Dev == <<"D","e","v">>   \* 'Dev'
T_Ops == <<"O","p","s">>   \* 'Ops'
C_Zed == <<"Z","e","d">>   \* 'Zed'
L_PuneSp == <<"P","u","n","e",","," ","M","H">>   \* 'Pune, MH'
L_Goa == <<"G","o","a">>   \* 'Goa'
D_today == <<"t","o","d","a","y">>   \* 'today'
L_valid == <<"h","t","t","p","s",":","/","/","a",".","c","o","/","j","1">>   \* 'https://a.co/j1'
L_short == <<"h","t","t","p",":","/","/","x">>   \* 'http://x'
L_noscheme == <<"w","w","w",".","a",".","c","o","/","j","o","b","s">>   \* 'www.a.co/jobs'
S_Other == <<"O","t","h","e","r">>   \* 'Other'
W_remote == <<"r","e","m","o","t","e">>   \* 'remote'
W_hybrid == <<"h","y","b","r","i","d">>   \* 'hybrid'
W_bangalore == <<"b","a","n","g","a","l","o","r","e">>   \* 'bangalore'
W_bengaluru == <<"b","e","n","g","a","l","u","r","u">>   \* 'bengaluru'
W_today == <<"t","o","d","a","y">>   \* 'today'
W_just_now == <<"j","u","s","t"," ","n","o","w">>   \* 'just now'
W_hour == <<"h","o","u","r">>   \* 'hour'
W_yesterday == <<"y","e","s","t","e","r","d","a","y">>   \* 'yesterday'
W_day == <<"d","a","y">>   \* 'day'
W_week == <<"w","e","e","k">>   \* 'week'
W_within_last_7_days == <<"w","i","t","h","i","n"," ","l","a","s","t"," ","7"," ","d","a","y","s">>   \* 'within last 7 days'
W_d == <<"d">>   \* 'd'
MonthNames == <<<<"j","a","n","u","a","r","y">>,
    <<"f","e","b","r","u","a","r","y">>,
    <<"m","a","r","c","h">>,
    <<"a","p","r","i","l">>,
    <<"m","a","y">>,
    <<"j","u","n","e">>,
    <<"j","u","l","y">>,
    <<"a","u","g","u","s","t">>,
    <<"s","e","p","t","e","m","b","e","r">>,
    <<"o","c","t","o","b","e","r">>,
    <<"n","o","v","e","m","b","e","r">>,
    <<"d","e","c","e","m","b","e","r">>>>
MonthAbbrs == <<<<"j","a","n">>,
    <<"f","e","b">>,
    <<"m","a","r">>,
    <<"a","p","r">>,
    <<"m","a","y">>,
    <<"j","u","n">>,
    <<"j","u","l">>,
    <<"a","u","g">>,
    <<"s","e","p">>,
    <<"o","c","t">>,
    <<"n","o","v">>,
    <<"d","e","c">>>>
DayAbbrs == <<<<"m","o","n">>, <<"t","u","e">>, <<"w","e","d">>, <<"t","h","u">>, <<"f","r","i">>, <<"s","a","t">>, <<"s","u","n">>>>
LinkBase == <<"h","t","t","p","s",":","/","/","a",".","c","o","/","j">>   \* 'https://a.co/j'

---------------------------------------------------------------------------
(* Records and frames                                                      *)

Job(t, c, l, d, k, s) ==
    [title |-> t, company |-> c, location |-> l, date |-> d, link |-> k, source |-> s]

\* the columns of a frame of job listings
JobColumns == {"title", "company", "location", "date", "link", "source"}

\* jobs_df[col] = values: every row gets the column col
WithColumn(f, col, values) ==
    [i \in 1..Len(f) |-> f[i] @@ (col :> values[i])]

\* .drop(cols, axis=1)
DropColumns(f, cols) == [i \in 1..Len(f) |-> [k \in DOMAIN f[i] \ cols |-> f[i][k]]]

\* jobs_df[mask]: the rows satisfying Keep, in order
Rows(f, Keep(_)) == SelectSeq(f, Keep)

\* mask.sum()
Count(f, Keep(_)) == Cardinality({i \in 1..Len(f) : Keep(f[i])})

---------------------------------------------------------------------------
(* process_jobs, lines 457-463: default filling and the title drop         *)

fillna(v, default) == IF IsNull(v) THEN default ELSE v

FillDefaults(f) ==
    [i \in 1..Len(f) |->
        [f[i] EXCEPT !.location = fillna(@, DefaultLocation),
                     !.date = fillna(@, DefaultDate),
                     !.company = fillna(@, DefaultCompany)]]

HasTitle(r) == ~IsNull(r.title) /\ r.title # EmptyStr

\* a title drop that forgets the empty title
TitleDrop_NullOnly(f) == Rows(f, LAMBDA r : ~IsNull(r.title))

TitleDrop(f) == Rows(f, HasTitle)

---------------------------------------------------------------------------
(* enrich_job_data                                                         *)

\* lines 395-398: a link without the scheme prefix becomes ''
ValidLink(link) ==
    IF Truthy(link) /\ (StartsWith(link, HttpPrefix) \/ StartsWith(link, HttpsPrefix))
    THEN link ELSE EmptyStr

MinLinkLen == 10

\* a fallback test that forgets the length
NeedsFallback_EmptyOnly(link) == ~Truthy(link)

NeedsFallback(link) == ~Truthy(link) \/ Len(link) < MinLinkLen

\* lines 401-419
generate_fallback_link(r) ==
    IF NeedsFallback(r.link)
    THEN LET company == Replace(r.company, " ", <<"+">>)
             title == Replace(r.title, " ", <<"+">>)
             location == Replace(r.location, " ", <<"+">>)
         IN  IF r.source = SrcIndeed
               THEN IndeedUrl \o title \o <<"+">> \o company \o IndeedLoc \o location
             ELSE IF r.source = SrcNaukri
               THEN NaukriUrl \o location \o NaukriKey \o title
             ELSE IF r.source = SrcLinkedIn
               THEN LinkedInUrl \o title \o LocationParam \o location
             ELSE IF r.source = SrcFoundit
               THEN FounditUrl \o title \o LocationParam \o location
             ELSE GoogleUrl \o title \o <<"+">> \o company \o GoogleJobsIn \o location
    ELSE r.link

\* lines 424-426
CleanCompany(company) == Strip(RemoveParens(company))

\* lines 429-431
CleanLocation(location) == Strip(Replace(location, ",", <<",", " ">>))

EnrichRow(r) ==
    LET r1 == [r EXCEPT !.link = ValidLink(@)]
        r2 == [r1 EXCEPT !.link = generate_fallback_link(r1)]
    IN  [r2 EXCEPT !.company = CleanCompany(@), !.location = CleanLocation(@)]

\* The attribute and type errors of the lambdas: NaN is truthy and has no
\* startswith; a null title, company or location has no replace; re.sub
\* rejects a null company.
EnrichRowRaises(r) ==
    \/ r.link = NaN
    \/ IsNull(r.company)
    \/ IsNull(r.location)
    \/ NeedsFallback(ValidLink(r.link)) /\ IsNull(r.title)

\* no return on an empty frame (line 391): assigning the result of a row-wise
\* apply on an empty frame to a column raises
EnrichRaises_OnEmpty(f) == f = <<>> \/ \E i \in 1..Len(f) : EnrichRowRaises(f[i])

EnrichRaises(f) == \E i \in 1..Len(f) : EnrichRowRaises(f[i])

\* what the caller's frame holds when the call raised: the columns assigned
\* before the failing apply
EnrichedUntilRaise(f) ==
    LET links == [i \in 1..Len(f) |-> [f[i] EXCEPT !.link = ValidLink(@)]]
        fallbacks == [i \in 1..Len(f) |->
                         [links[i] EXCEPT !.link = generate_fallback_link(links[i])]]
        companies == [i \in 1..Len(f) |->
                         [fallbacks[i] EXCEPT !.company = CleanCompany(@)]]
    IN  IF \E i \in 1..Len(f) : f[i].link = NaN THEN f
        ELSE IF \E i \in 1..Len(f) :
                   /\ NeedsFallback(links[i].link)
                   /\ IsNull(f[i].title) \/ IsNull(f[i].company) \/ IsNull(f[i].location)
          THEN links
        ELSE IF \E i \in 1..Len(f) : IsNull(f[i].company) THEN fallbacks
        ELSE companies

enrich_job_data(f) == [i \in 1..Len(f) |-> EnrichRow(f[i])]

---------------------------------------------------------------------------
(* remove_duplicates                                                       *)

\* lines 323-324
CleanKey(s) == StripPunct(Lower(s))

\* a key that also holds the source
DedupKey_WithSource(r) == <<CleanKey(r.title), CleanKey(r.company), r.source>>

DedupKey(r) == <<CleanKey(r.title), CleanKey(r.company)>>

DedupRaises(f) == \E i \in 1..Len(f) : IsNull(f[i].title) \/ IsNull(f[i].company)

\* drop_duplicates(keep='last')
KeptByDedup_Last(f, i) == \A j \in (i + 1)..Len(f) : DedupKey(f[j]) # DedupKey(f[i])

\* line 328: drop_duplicates keeps the first row of every key
KeptByDedup(f, i) == \A j \in 1..(i - 1) : DedupKey(f[j]) # DedupKey(f[i])

RECURSIVE DedupFrom(_, _)
DedupFrom(f, i) ==
    IF i > Len(f) THEN <<>>
    ELSE (IF KeptByDedup(f, i) THEN <<f[i]>> ELSE <<>>) \o DedupFrom(f, i + 1)

\* a deduplication on the raw title and company
RECURSIVE DedupRawFrom(_, _)
DedupRawFrom(f, i) ==
    IF i > Len(f) THEN <<>>
    ELSE (IF \A j \in 1..(i - 1) :
                <<f[j].title, f[j].company>> # <<f[i].title, f[i].company>>
          THEN <<f[i]>> ELSE <<>>) \o DedupRawFrom(f, i + 1)

remove_duplicates_raw(f) == DedupRawFrom(f, 1)

\* lines 323-324, written into the frame the caller handed over
CleanTitleColumn(f) ==
    WithColumn(f, "clean_title", [i \in 1..Len(f) |-> CleanKey(f[i].title)])

CleanColumns(f) ==
    WithColumn(CleanTitleColumn(f), "clean_company",
               [i \in 1..Len(f) |-> CleanKey(f[i].company)])

\* lines 319-333
remove_duplicates(f) ==
    IF Len(f) = 0 THEN f
    ELSE DropColumns(DedupFrom(CleanColumns(f), 1), {"clean_title", "clean_company"})

---------------------------------------------------------------------------
(* Lists, masks and the thresholds of the filters                          *)

\* a list argument that was not given (keywords=None, locations=None)
NoneList == <<None>>

LowerAll(list) == [i \in 1..Len(list) |-> Lower(list[i])]

\* mask.sum()
MaskSum(mask) == Cardinality({i \in 1..Len(mask) : mask[i]})

\* jobs_df[mask].reset_index(drop=True)
RECURSIVE ApplyMaskFrom(_, _, _)
ApplyMaskFrom(f, mask, i) ==
    IF i > Len(f) THEN <<>>
    ELSE (IF mask[i] THEN <<f[i]>> ELSE <<>>) \o ApplyMaskFrom(f, mask, i + 1)

ApplyMask(f, mask) == ApplyMaskFrom(f, mask, 1)

\* str.split(): the maximal runs of non-whitespace characters
RECURSIVE WordsFrom(_, _, _)
WordsFrom(s, i, cur) ==
    IF i > Len(s) THEN (IF cur = <<>> THEN <<>> ELSE <<cur>>)
    ELSE IF s[i] \in SpaceSet
         THEN (IF cur = <<>> THEN <<>> ELSE <<cur>>) \o WordsFrom(s, i + 1, <<>>)
         ELSE WordsFrom(s, i + 1, Append(cur, s[i]))

Words(s) == WordsFrom(s, 1, <<>>)

MinRowsToFilter == 15
FloorCount == 10

\* mask.sum() < max(10, len(jobs_df) * 0.5)
BelowFloor(kept, total) ==
    IF 2 * FloorCount >= total THEN kept < FloorCount ELSE 2 * kept < total

---------------------------------------------------------------------------
(* filter_jobs_by_keywords                                                 *)

CommonTerms ==
    << <<"a","n","a","l","y","s","t">>,                           \* 'analyst'
       <<"m","a","n","a","g","e","r">>,                           \* 'manager'
       <<"f","i","n","a","n","c","e">>,                           \* 'finance'
       <<"b","a","n","k","i","n","g">>,                           \* 'banking'
       <<"r","e","p","o","r","t","i","n","g">>,                   \* 'reporting'
       <<"r","i","s","k">>,                                       \* 'risk'
       <<"c","o","m","p","l","i","a","n","c","e">>,               \* 'compliance'
       <<"o","p","e","r","a","t","i","o","n","s">>,               \* 'operations'
       <<"i","n","v","e","s","t","m","e","n","t">>,               \* 'investment'
       <<"a","s","s","o","c","i","a","t","e">> >>                 \* 'associate'

\* lines 31-38: keyword in the title or the company, or a title word inside
\* the keyword
KeywordStrict(r, keywords_lower) ==
    LET title == Lower(r.title)
        company == Lower(r.company)
        words == Words(title)
    IN  \E i \in 1..Len(keywords_lower) :
            \/ Contains(keywords_lower[i], title)
            \/ Contains(keywords_lower[i], company)
            \/ \E w \in 1..Len(words) : Contains(words[w], keywords_lower[i])

\* lines 44-49
KeywordLoose(r) ==
    LET title == Lower(r.title)
    IN  \E i \in 1..Len(CommonTerms) : Contains(CommonTerms[i], title)

\* lines 40-49: the mask that decides, strict unless it keeps too few
KeywordMask(f, keywords) ==
    LET keywords_lower == LowerAll(keywords)
        strict == [i \in 1..Len(f) |-> KeywordStrict(f[i], keywords_lower)]
    IN  IF BelowFloor(MaskSum(strict), Len(f))
        THEN [i \in 1..Len(f) |-> KeywordLoose(f[i])]
        ELSE strict

\* a missing keyword list cannot be iterated; a null title has no lower();
\* a null company is reached when the first keyword is not in the title
KeywordsRaises(f, keywords) ==
    /\ Len(f) >= MinRowsToFilter
    /\ \/ keywords = NoneList
       \/ \E i \in 1..Len(f) :
            \/ IsNull(f[i].title)
            \/ /\ IsNull(f[i].company)
               /\ keywords # <<>>
               /\ ~Contains(Lower(keywords[1]), Lower(f[i].title))

\* a lenient fallback that appends the loosely matched rows to the strictly
\* matched ones
filter_jobs_by_keywords_append(f, keywords) ==
    IF Len(f) < MinRowsToFilter THEN f
    ELSE LET keywords_lower == LowerAll(keywords)
             strict == [i \in 1..Len(f) |-> KeywordStrict(f[i], keywords_lower)]
             loose == [i \in 1..Len(f) |-> KeywordLoose(f[i])]
         IN  IF BelowFloor(MaskSum(strict), Len(f))
             THEN ApplyMask(f, strict) \o ApplyMask(f, loose)
             ELSE ApplyMask(f, strict)

filter_jobs_by_keywords(f, keywords) ==
    IF Len(f) < MinRowsToFilter THEN f
    ELSE LET mask == KeywordMask(f, keywords)
         IN  IF MaskSum(mask) = 0 THEN f ELSE ApplyMask(f, mask)

---------------------------------------------------------------------------
(* filter_jobs_by_location                                                 *)

RemoteTerms ==
    << W_remote, W_hybrid,
       <<"w","o","r","k"," ","f","r","o","m"," ","h","o","m","e">>,  \* 'work from home'
       <<"w","f","h">>,                                           \* 'wfh'
       <<"a","n","y","w","h","e","r","e">>,                       \* 'anywhere'
       <<"i","n","d","i","a">>,                                   \* 'india'
       <<"p","a","n"," ","i","n","d","i","a">> >>                 \* 'pan india'

LooseLocationTerms ==
    << <<"i","n","d","i","a">>,                                   \* 'india'
       W_bangalore, W_bengaluru, W_remote, W_hybrid,
       <<"a","n","y","w","h","e","r","e">> >>                     \* 'anywhere'

\* lines 119-126
RECURSIVE Variations(_)
Variations(locations_lower) ==
    IF locations_lower = <<>> THEN <<>>
    ELSE LET loc == Head(locations_lower)
         IN  <<loc>>
             \o (IF Contains(W_bangalore, loc)
                   THEN <<W_bengaluru,
                          <<"b","l","r">>,                        \* 'blr'
                          W_bangalore,
                          <<"b","e","n","g","a","l","o","r","e">>>>  \* 'bengalore'
                 ELSE IF Contains(W_bengaluru, loc)
                   THEN <<W_bangalore,
                          <<"b","l","r">>,                        \* 'blr'
                          <<"b","e","n","g","a","l","o","r","e">>>>  \* 'bengalore'
                 ELSE <<>>)
             \o Variations(Tail(locations_lower))

\* lines 129-131: the remote terms no variation contains are added
LocationVariations(locations) ==
    LET base == Variations(LowerAll(locations))
    IN  base \o SelectSeq(RemoteTerms,
                          LAMBDA term : ~\E i \in 1..Len(base) : Contains(term, base[i]))

\* lines 134-139
LocationStrict(r, variations) ==
    \/ \E i \in 1..Len(variations) : Contains(variations[i], Lower(r.location))
    \/ Contains(W_remote, Lower(r.title))
    \/ Contains(W_hybrid, Lower(r.title))

\* lines 145-149
LocationLoose(r) ==
    LET loc == Lower(r.location)
    IN  \/ \E i \in 1..Len(LooseLocationTerms) : Contains(LooseLocationTerms[i], loc)
        \/ loc = EmptyStr

LocationMask(f, locations) ==
    LET variations == LocationVariations(locations)
        strict == [i \in 1..Len(f) |-> LocationStrict(f[i], variations)]
    IN  IF BelowFloor(MaskSum(strict), Len(f))
        THEN [i \in 1..Len(f) |-> LocationLoose(f[i])]
        ELSE strict

\* a missing location list cannot be iterated; a null location has no
\* lower(); a null title is reached when no variation is in the location
LocationRaises(f, locations) ==
    /\ Len(f) >= MinRowsToFilter
    /\ \/ locations = NoneList
       \/ \E i \in 1..Len(f) :
            \/ IsNull(f[i].location)
            \/ /\ IsNull(f[i].title)
               /\ LET variations == LocationVariations(locations)
                  IN  ~\E v \in 1..Len(variations) :
                          Contains(variations[v], Lower(f[i].location))

\* a location filter without its small-set guard
filter_jobs_by_location_unguarded(f, locations) ==
    LET mask == LocationMask(f, locations)
    IN  IF MaskSum(mask) = 0 THEN f ELSE ApplyMask(f, mask)

\* lines 152-156
filter_jobs_by_location(f, locations) ==
    IF Len(f) < MinRowsToFilter THEN f
    ELSE LET mask == LocationMask(f, locations)
         IN  IF MaskSum(mask) < FloorCount /\ Len(f) > MinRowsToFilter
             THEN f
             ELSE ApplyMask(f, mask)

---------------------------------------------------------------------------
(* Numbers in text and the regular expressions of the date code            *)

DigitVal(c) == (CHOOSE i \in 1..10 : DigitChars[i] = c) - 1

IsDigitAt(s, i) == i >= 1 /\ i <= Len(s) /\ s[i] \in DigitSet

\* the value of the digits from position i to the end of their run
RECURSIVE RunValue(_, _, _)
RunValue(s, i, acc) ==
    IF IsDigitAt(s, i) THEN RunValue(s, i + 1, acc * 10 + DigitVal(s[i])) ELSE acc

\* the position after the run of digits that holds position i
RECURSIVE RunEnd(_, _)
RunEnd(s, i) == IF IsDigitAt(s, i) THEN RunEnd(s, i + 1) ELSE i

\* \s*
RECURSIVE SkipSpaces(_, _)
SkipSpaces(s, i) ==
    IF i <= Len(s) /\ s[i] \in SpaceSet THEN SkipSpaces(s, i + 1) ELSE i

HasAt(s, i, lit) ==
    /\ i + Len(lit) - 1 <= Len(s)
    /\ \A k \in 1..Len(lit) : s[i + k - 1] = lit[k]

\* re.search(r'(\d+)', s): the first run of digits, -1 when there is none
FirstNumber(s) ==
    LET at == {i \in 1..Len(s) : s[i] \in DigitSet}
    IN  IF at = {} THEN -1
        ELSE RunValue(s, CHOOSE i \in at : \A j \in at : i <= j, 0)

\* \d+\s*lit matches somewhere in s
DigitsThen(s, lit) ==
    \E p \in 1..Len(s) : s[p] \in DigitSet /\ HasAt(s, SkipSpaces(s, p + 1), lit)

\* group 1 of the leftmost match of (\d+)\s*lit, -1 when there is no match
GroupBefore(s, lit) ==
    LET starts == {i \in 1..Len(s) :
                      /\ s[i] \in DigitSet
                      /\ ~IsDigitAt(s, i - 1)
                      /\ HasAt(s, SkipSpaces(s, RunEnd(s, i)), lit)}
    IN  IF starts = {} THEN -1
        ELSE RunValue(s, CHOOSE i \in starts : \A j \in starts : i <= j, 0)

AllDigits(s) == s # <<>> /\ \A i \in 1..Len(s) : s[i] \in DigitSet

\* s.split(sep) for a single character sep
RECURSIVE SplitFrom(_, _, _, _)
SplitFrom(s, sep, i, cur) ==
    IF i > Len(s) THEN <<cur>>
    ELSE IF s[i] = sep THEN <<cur>> \o SplitFrom(s, sep, i + 1, <<>>)
    ELSE SplitFrom(s, sep, i + 1, Append(cur, s[i]))

Split(s, sep) == SplitFrom(s, sep, 1, <<>>)

---------------------------------------------------------------------------
(* Instants of the proleptic Gregorian calendar                            *)

SecondsPerDay == 86400

IsLeap(y) == (y % 4 = 0 /\ y % 100 # 0) \/ y % 400 = 0

DaysInMonth(y, m) ==
    IF m = 2 THEN (IF IsLeap(y) THEN 29 ELSE 28)
    ELSE IF m \in {4, 6, 9, 11} THEN 30 ELSE 31

RECURSIVE DaysBeforeMonth(_, _)
DaysBeforeMonth(y, m) ==
    IF m = 1 THEN 0 ELSE DaysBeforeMonth(y, m - 1) + DaysInMonth(y, m - 1)

\* date.toordinal()
Ordinal(y, m, d) ==
    365 * (y - 1) + ((y - 1) \div 4) - ((y - 1) \div 100) + ((y - 1) \div 400)
      + DaysBeforeMonth(y, m) + d

\* instants count seconds from 1 January 2000
EpochOrdinal == Ordinal(2000, 1, 1)

NoTime == [ok |-> FALSE, t |-> 0]
At(t) == [ok |-> TRUE, t |-> t]

\* a datetime, when the fields are those of a real date
DateTime(y, m, d, hh, mm, ss) ==
    IF y >= 1 /\ m \in 1..12 /\ d >= 1 /\ d <= DaysInMonth(y, m)
    THEN At((Ordinal(y, m, d) - EpochOrdinal) * SecondsPerDay + hh * 3600 + mm * 60 + ss)
    ELSE NoTime

---------------------------------------------------------------------------
(* datetime.strptime for the formats of parse_date_string, lines 214-230   *)

\* %Y is four digits; %m, %d, %H, %M and %S are one or two digits in range
FieldY(s) == IF Len(s) = 4 /\ AllDigits(s) THEN RunValue(s, 1, 0) ELSE -1

Field2(s, lo, hi) ==
    IF Len(s) \in {1, 2} /\ AllDigits(s) /\ RunValue(s, 1, 0) \in lo..hi
    THEN RunValue(s, 1, 0) ELSE -1

\* %d also takes a space and one digit
FieldD(s) ==
    IF Len(s) = 2 /\ s[1] = " " /\ s[2] \in DigitSet /\ s[2] # "0"
    THEN DigitVal(s[2]) ELSE Field2(s, 1, 31)

IndexOf(list, x) ==
    IF \E i \in 1..Len(list) : list[i] = x
    THEN CHOOSE i \in 1..Len(list) : list[i] = x
    ELSE 0

\* %b and %B
FieldAbbr(s) == IndexOf(MonthAbbrs, s)
FieldName(s) == IndexOf(MonthNames, s)

Numeric3(parts, iy, im, id) ==
    IF Len(parts) = 3
       /\ FieldY(parts[iy]) >= 0 /\ Field2(parts[im], 1, 12) >= 0
       /\ FieldD(parts[id]) >= 0
    THEN DateTime(FieldY(parts[iy]), Field2(parts[im], 1, 12),
                  FieldD(parts[id]), 0, 0, 0)
    ELSE NoTime

\* '%b %d, %Y' and '%B %d, %Y'
MonthDayYear(words, Month(_)) ==
    IF Len(words) = 3 /\ Month(words[1]) > 0
       /\ words[2] # <<>> /\ words[2][Len(words[2])] = ","
       /\ Field2(SubSeq(words[2], 1, Len(words[2]) - 1), 1, 31) >= 0
       /\ FieldY(words[3]) >= 0
    THEN DateTime(FieldY(words[3]), Month(words[1]),
                  Field2(SubSeq(words[2], 1, Len(words[2]) - 1), 1, 31), 0, 0, 0)
    ELSE NoTime

\* '%d %b %Y' and '%d %B %Y'
DayMonthYear(words, Month(_)) ==
    IF Len(words) = 3 /\ Month(words[2]) > 0
       /\ Field2(words[1], 1, 31) >= 0 /\ FieldY(words[3]) >= 0
    THEN DateTime(FieldY(words[3]), Month(words[2]), Field2(words[1], 1, 31), 0, 0, 0)
    ELSE NoTime

\* '%a %b %d %H:%M:%S UTC %Y'
GitHubFormat(words) ==
    IF Len(words) = 6 /\ IndexOf(DayAbbrs, words[1]) > 0 /\ FieldAbbr(words[2]) > 0
       /\ Field2(words[3], 1, 31) >= 0 /\ words[5] = <<"u","t","c">> /\ FieldY(words[6]) >= 0
       /\ LET hms == Split(words[4], ":")
          IN  /\ Len(hms) = 3
              /\ Field2(hms[1], 0, 23) >= 0
              /\ Field2(hms[2], 0, 59) >= 0
              /\ Field2(hms[3], 0, 61) >= 0
    THEN LET hms == Split(words[4], ":")
         IN  DateTime(FieldY(words[6]), FieldAbbr(words[2]), Field2(words[3], 1, 31),
                      Field2(hms[1], 0, 23), Field2(hms[2], 0, 59), Field2(hms[3], 0, 61))
    ELSE NoTime

\* the first format that parses wins
FirstOk(results) ==
    IF \E i \in 1..Len(results) : results[i].ok
    THEN results[CHOOSE i \in 1..Len(results) :
                     results[i].ok /\ \A j \in 1..(i - 1) : ~results[j].ok]
    ELSE NoTime

ParseFormats(s) ==
    LET dash == Split(s, "-")
        slash == Split(s, "/")
        words == Words(s)
    IN  FirstOk(<< Numeric3(dash, 1, 2, 3),
                   Numeric3(slash, 3, 2, 1),
                   Numeric3(slash, 3, 1, 2),
                   MonthDayYear(words, FieldAbbr),
                   MonthDayYear(words, FieldName),
                   DayMonthYear(words, FieldAbbr),
                   DayMonthYear(words, FieldName),
                   Numeric3(slash, 1, 2, 3),
                   GitHubFormat(words) >>)

---------------------------------------------------------------------------
(* parse_date_string                                                       *)

\* now - timedelta(...) when the text holds a number
Ago(s, now, unit) == At(now - FirstNumber(s) * unit)

parse_date_string(date_str, now) ==
    LET s == Strip(Lower(date_str))
    IN  IF s \in {W_today, W_just_now,
                  <<"n","o","w">>,                                \* 'now'
                  <<"f","e","w"," ","m","i","n","u","t","e","s"," ","a","g","o">>,  \* 'few minutes ago'
                  <<"r","e","c","e","n","t","l","y"," ","p","o","s","t","e","d">>}  \* 'recently posted'
          THEN At(now)
        ELSE IF Contains(<<"m","i","n","u","t","e">>, s)
          THEN (IF FirstNumber(s) >= 0 THEN Ago(s, now, 60) ELSE At(now))
        ELSE IF Contains(W_hour, s)
          THEN (IF FirstNumber(s) >= 0 THEN Ago(s, now, 3600) ELSE At(now))
        ELSE IF s \in {W_yesterday, <<"1"," ","d","a","y"," ","a","g","o">>}
          THEN At(now - SecondsPerDay)
        ELSE IF Contains(W_day, s) /\ FirstNumber(s) >= 0
          THEN Ago(s, now, SecondsPerDay)
        ELSE IF Contains(W_week, s) /\ FirstNumber(s) >= 0
          THEN Ago(s, now, 7 * SecondsPerDay)
        ELSE IF s \in {W_within_last_7_days,
                       <<"p","a","s","t"," ","w","e","e","k">>,   \* 'past week'
                       <<"r","e","c","e","n","t">>,               \* 'recent'
                       <<"p","o","s","t","e","d"," ","r","e","c","e","n","t","l","y">>}  \* 'posted recently'
          THEN At(now - 3 * SecondsPerDay)
        ELSE IF Contains(<<"m","o","n","t","h">>, s) /\ FirstNumber(s) >= 0
          THEN Ago(s, now, 30 * SecondsPerDay)
        ELSE ParseFormats(s)

---------------------------------------------------------------------------
(* filter_recent_jobs                                                      *)

RecentIndicators ==
    << W_today, W_just_now,
       <<"f","e","w"," ","h","o","u","r","s"," ","a","g","o">>,   \* 'few hours ago'
       <<"h","o","u","r"," ","a","g","o">>,                       \* 'hour ago'
       <<"h","o","u","r","s"," ","a","g","o">>,                   \* 'hours ago'
       W_yesterday,
       <<"1"," ","d","a","y"," ","a","g","o">>,                   \* '1 day ago'
       <<"r","e","c","e","n","t">>,                               \* 'recent'
       <<"m","o","m","e","n","t","s"," ","a","g","o">>,           \* 'moments ago'
       <<"j","u","s","t"," ","p","o","s","t","e","d">>,           \* 'just posted'
       <<"n","e","w">>,                                           \* 'new'
       <<"p","o","s","t","e","d"," ","t","o","d","a","y">>,       \* 'posted today'
       W_within_last_7_days,
       <<"r","e","c","e","n","t","l","y"," ","p","o","s","t","e","d">>,  \* 'recently posted'
       <<"p","a","s","t"," ","w","e","e","k">>,                   \* 'past week'
       <<"f","e","w"," ","d","a","y","s"," ","a","g","o">>,       \* 'few days ago'
       <<"t","h","i","s"," ","w","e","e","k">>,                   \* 'this week'
       <<"a","c","t","i","v","e">>,                               \* 'active'
       <<"l","a","t","e","s","t">>,                               \* 'latest'
       <<"f","r","e","s","h">>,                                   \* 'fresh'
       <<"a","v","a","i","l","a","b","l","e">>,                   \* 'available'
       <<"c","u","r","r","e","n","t">>,                           \* 'current'
       <<"o","p","e","n">>,                                       \* 'open'
       <<"p","o","s","t","e","d">> >>                             \* 'posted'

ExtendedFactor == 5
ExtendedMinDays == 45

\* line 270
ExtendedDays(days) ==
    IF days * ExtendedFactor > ExtendedMinDays THEN days * ExtendedFactor
    ELSE ExtendedMinDays

\* lines 273-282
RecentByText(date_str, days) ==
    LET date == Lower(date_str)
    IN  \/ \E i \in 1..Len(RecentIndicators) : Contains(RecentIndicators[i], date)
        \/ DigitsThen(date, <<"h","r">>) \/ DigitsThen(date, W_hour)
        \/ DigitsThen(date, <<"m","i","n">>)
        \/ GroupBefore(date, W_d) >= 0 /\ GroupBefore(date, W_d) <= ExtendedDays(days)
        \/ /\ GroupBefore(date, W_week) >= 0
           /\ GroupBefore(date, W_week) <= ExtendedDays(days) \div 7
        \/ Len(Strip(date)) <= 2

\* a date that does not parse counted as old
is_recent_date_strict(date_str, days, now) ==
    LET parsed_date == parse_date_string(date_str, now)
        cutoff_date == now - ExtendedDays(days) * SecondsPerDay
    IN  parsed_date.ok /\ parsed_date.t >= cutoff_date

\* lines 285-294
is_recent_date(date_str, days, now) ==
    LET parsed_date == parse_date_string(date_str, now)
        cutoff_date == now - ExtendedDays(days) * SecondsPerDay
    IN  IF ~parsed_date.ok THEN TRUE ELSE parsed_date.t >= cutoff_date

\* line 299
RecentMask(f, days, now) ==
    [i \in 1..Len(f) |->
        RecentByText(f[i].date, days) \/ is_recent_date(f[i].date, days, now)]

\* a null date has no lower()
RecentRaises(f) ==
    Len(f) >= MinRowsToFilter /\ \E i \in 1..Len(f) : IsNull(f[i].date)

\* a recency filter without its fallback
filter_recent_jobs_unfloored(f, days, now) ==
    IF Len(f) < MinRowsToFilter THEN f ELSE ApplyMask(f, RecentMask(f, days, now))

\* lines 247-252 and 301-306
filter_recent_jobs(f, days, now) ==
    IF Len(f) < MinRowsToFilter THEN f
    ELSE LET mask == RecentMask(f, days, now)
         IN  IF 2 * MaskSum(mask) < Len(f) THEN f ELSE ApplyMask(f, mask)

---------------------------------------------------------------------------
(* sort_jobs_by_date                                                       *)

\* the test for 'day' placed before the test for 'today'
recency_score_day_first(date_str) ==
    LET s == Lower(date_str)
    IN  IF Contains(W_hour, s)
          THEN (IF FirstNumber(date_str) >= 0 THEN 900 - FirstNumber(date_str) ELSE 800)
        ELSE IF Contains(W_day, s)
          THEN (IF FirstNumber(date_str) >= 0 THEN 500 - FirstNumber(date_str) ELSE 400)
        ELSE IF Contains(W_today, s)
          THEN 700
        ELSE IF Contains(W_week, s)
          THEN 300
        ELSE 0

\* lines 350-372
recency_score(date_str) ==
    LET s == Lower(date_str)
    IN  IF \/ Contains(W_just_now, s)
           \/ Contains(<<"f","e","w"," ","m","i","n","u","t","e","s">>, s)
           \/ Contains(<<"m","o","m","e","n","t","s"," ","a","g","o">>, s)
          THEN 1000
        ELSE IF Contains(W_hour, s)
          THEN (IF FirstNumber(date_str) >= 0 THEN 900 - FirstNumber(date_str) ELSE 800)
        ELSE IF Contains(W_today, s)
          THEN 700
        ELSE IF Contains(W_yesterday, s) \/ Contains(<<"1"," ","d","a","y">>, s)
          THEN 600
        ELSE IF Contains(W_day, s)
          THEN (IF FirstNumber(date_str) >= 0 THEN 500 - FirstNumber(date_str) ELSE 400)
        ELSE IF Contains(W_week, s) \/ Contains(W_within_last_7_days, s)
          THEN 300
        ELSE 0

SortRaises(f) == \E i \in 1..Len(f) : IsNull(f[i].date)

\* the rows of one score, in frame order or in the opposite order
RECURSIVE Reverse(_)
Reverse(s) == IF s = <<>> THEN <<>> ELSE Reverse(Tail(s)) \o <<Head(s)>>

ScoreGroup(f, score, ties) ==
    LET rows == SelectSeq(f, LAMBDA r : recency_score(r.date) = score)
    IN  IF ties = "kept" THEN rows ELSE Reverse(rows)

RECURSIVE SortDescending(_, _, _)
SortDescending(f, scores, ties) ==
    IF scores = {} THEN <<>>
    ELSE LET top == CHOOSE x \in scores : \A y \in scores : x >= y
         IN  ScoreGroup(f, top, ties) \o SortDescending(f, scores \ {top}, ties)

\* lines 375-378: sort_values(ascending=False) with the default kind,
\* quicksort, which fixes the order of the scores but not the order of the
\* rows of one score
TieOrders == {"kept", "reversed"}

\* sort_values with ascending left at its default
sort_jobs_by_date_ascending(f, ties) ==
    Reverse(SortDescending(f, {recency_score(f[i].date) : i \in 1..Len(f)}, ties))

\* line 375, written into the frame the caller handed over
ScoreColumn(f) ==
    WithColumn(f, "recency_score", [i \in 1..Len(f) |-> recency_score(f[i].date)])

\* lines 346-378
sort_jobs_by_date(f, ties) ==
    IF Len(f) = 0 THEN f
    ELSE DropColumns(SortDescending(ScoreColumn(f),
                                    {recency_score(f[i].date) : i \in 1..Len(f)}, ties),
                     {"recency_score"})

---------------------------------------------------------------------------
(* The frames a caller may hand over                                       *)

\* Messy scraped rows: every null and empty case of every field, links of
\* every kind, and pairs that share a dedup key only after cleaning.
MessyPool ==
    << Job(<<"Q","A"," ","L","e","a","d">>,                       \* 'QA Lead'
           <<"A","c","m","e"," ","(","4",".","2",")">>,           \* 'Acme (4.2)'
           <<"P","u","n","e",",","M","H">>,                       \* 'Pune,MH'
           D_today, L_valid, SrcIndeed),
       Job(<<"q","&","a"," ","l","e","a","d","!">>,               \* 'q&a lead!'
           <<"A","C","M","E",".">>,                               \* 'ACME.'
           L_PuneSp, None, EmptyStr, SrcNaukri),
       Job(None, C_Zed, L_Goa, D_today, NaN, SrcIndeed),
       Job(EmptyStr, C_Zed, NaN, D_today, L_valid, S_Other),
       Job(T_Dev, None, None, EmptyStr, None, None),
       Job(T_Dev, EmptyStr, EmptyStr, NaN, L_short, EmptyStr),
       Job(T_Dev,
           <<"(","h","i","r","i","n","g",")">>,                   \* '(hiring)'
           L_Goa, D_today, L_noscheme, SrcLinkedIn),
       Job(T_Ops, C_Zed, L_Goa, D_today, NaN, SrcFoundit),
       Job(NaN, NaN, L_Goa, D_today, L_valid, NaN),
       Job(T_Ops, C_Zed, L_PuneSp, D_today, L_valid, SrcFoundit) >>

MaxSmall == 3

SmallFrames ==
    UNION {{[i \in 1..n |-> MessyPool[pick[i]]] : pick \in [1..n -> 1..Len(MessyPool)]}
           : n \in 0..MaxSmall}

\* Result pages: rows of one kind that differ in a running number, so that
\* a frame can be long enough for the filters to run.  The kinds differ in
\* what each filter sees in them.
Kinds ==
    << Job(<<"R","i","s","k"," ","A","n","a","l","y","s","t">>,   \* 'Risk Analyst'
           <<"A","c","m","e">>,                                   \* 'Acme'
           <<"B","a","n","g","a","l","o","r","e">>,               \* 'Bangalore'
           <<"2"," ","h","o","u","r","s"," ","a","g","o">>,       \* '2 hours ago'
           LinkBase, SrcIndeed),
       Job(<<"D","r","i","v","e","r">>,                           \* 'Driver'
           C_Zed,
           <<"M","u","m","b","a","i">>,                           \* 'Mumbai'
           <<"3"," ","m","o","n","t","h","s"," ","a","g","o">>,   \* '3 months ago'
           EmptyStr, SrcNaukri),
       Job(<<"O","p","s"," ","M","a","n","a","g","e","r">>,       \* 'Ops Manager'
           C_Zed,
           <<"R","e","m","o","t","e">>,                           \* 'Remote'
           <<"3"," ","w","e","e","k","s"," ","a","g","o">>,       \* '3 weeks ago'
           LinkBase, SrcLinkedIn),
       Job(<<"T","e","l","l","e","r">>,                           \* 'Teller'
           <<"R","i","s","k"," ","B","a","n","k">>,               \* 'Risk Bank'
           <<"B","e","n","g","a","l","u","r","u",",","I","n","d","i","a">>,  \* 'Bengaluru,India'
           <<"2","0","2","0","-","0","1","-","1","5">>,           \* '2020-01-15'
           LinkBase, S_Other),
       Job(<<"H","y","b","r","i","d"," ","C","l","e","r","k">>,   \* 'Hybrid Clerk'
           C_Zed,
           <<"P","u","n","e">>,                                   \* 'Pune'
           <<"s","o","o","n">>,                                   \* 'soon'
           LinkBase, SrcFoundit) >>

TwoDigits(i) == <<DigitChars[(i \div 10) + 1], DigitChars[(i % 10) + 1]>>

Row(kind, i) ==
    [Kinds[kind] EXCEPT !.title = @ \o <<" ">> \o TwoDigits(i),
                        !.link = IF @ = EmptyStr THEN @ ELSE @ \o TwoDigits(i)]

Block(kind, n) == [i \in 1..n |-> Row(kind, i)]

\* rows a scraper adds at the end: a row without a title, a row that
\* repeats an earlier row up to case and punctuation, and so on in turn;
\* a page comes without them or with MaxExtra of them
ExtraRows(rows, x) ==
    [j \in 1..x |->
        IF j % 2 = 1 THEN [rows[j] EXCEPT !.title = None]
        ELSE [rows[j] EXCEPT !.company = Lower(@) \o <<"!">>]]

MinMajor == 9
MaxMajor == 16
MaxMinor == 5
MaxExtra == 1

PagedFrames ==
    {Block(a, n) \o Block(b, m) \o ExtraRows(Block(a, n), x) :
        a \in 1..Len(Kinds), b \in 1..Len(Kinds),
        n \in MinMajor..MaxMajor, m \in {0, 1, MaxMinor}, x \in {0, MaxExtra}}

\* the keyword lists and location lists a caller passes; NoneList is the
\* argument left at its default None
KeywordChoices ==
    { << <<"A","n","a","l","y","s","t">> >>,                     \* ['Analyst']
      << <<"r","i","s","k">> >>,                                  \* ['risk']
      NoneList }

LocationChoices ==
    { << <<"B","a","n","g","a","l","o","r","e">> >>,             \* ['Bangalore']
      << <<"H","y","b","r","i","d"," ","B","a","n","g","a","l","o","r","e">>,
         <<"M","u","m","b","a","i">> >>,              \* ['Hybrid Bangalore', 'Mumbai']
      << <<"R","e","m","o","t","e"," ","P","u","n","e">> >>,     \* ['Remote Pune']
      NoneList }

DaysChoices == {7, 30}

\* the clock: noon of 1 March 2024
NowChoices == {(Ordinal(2024, 3, 1) - EpochOrdinal) * SecondsPerDay + 43200}

\* no fetch has been submitted
NoFutures == <<>>

NoArg == [list |-> <<>>, days |-> 0, now |-> 0, sort |-> FALSE, ties |-> "kept"]

\* the decimal digits of a number
RECURSIVE Decimal(_)
Decimal(n) ==
    IF n < 10 THEN <<DigitChars[n + 1]>>
    ELSE Decimal(n \div 10) \o <<DigitChars[(n % 10) + 1]>>

HoursAgo(h) == Decimal(h) \o <<" ","h","o","u","r","s"," ","a","g","o">>   \* ' hours ago'
DaysAgo(n) == Decimal(n) \o <<" ","d","a","y","s"," ","a","g","o">>   \* ' days ago'
D_1week == <<"1"," ","w","e","e","k"," ","a","g","o">>   \* '1 week ago'

\* Five rows that differ in their date: one the ranker does not recognize,
\* 'today', a count of days, a count of hours and '1 week ago'.
RankFrame(h, n) ==
    LET row(d) == [Kinds[1] EXCEPT !.date = d]
    IN  << row(<<"s","o","o","n">>),   \* 'soon'
           row(D_today), row(DaysAgo(n)), row(HoursAgo(h)), row(D_1week) >>

MaxHours == 200
MaxDays == 200

\* every count of hours beside 3 days, every count of days beside 2 hours:
\* each count stands in a frame with 'today', '1 week ago' and 'soon'
\* two rows posted n and m days ago
MaxPair == 12

DayPairs ==
    {<< [Kinds[1] EXCEPT !.date = DaysAgo(n)], [Kinds[2] EXCEPT !.date = DaysAgo(m)] >> :
        n \in 2..MaxPair, m \in 2..MaxPair}

RankFrames ==
    {RankFrame(h, 3) : h \in 0..MaxHours} \cup {RankFrame(2, n) : n \in 2..MaxDays}
        \cup DayPairs

Init ==
    /\ pc = "idle"
    /\ frame \in SmallFrames \cup PagedFrames
    /\ df = <<>>
    /\ prev = <<>>
    /\ arg = NoArg
    /\ futures = NoFutures

\* a day's collection: 17 different jobs in Bangalore, Bengaluru, Mumbai
\* and Remote, before them k rows that came without a title, after them d
\* rows that repeat one of the 17
MaxUntitled == 5
MaxRepeats == 3

Collected ==
    Block(1, 6) \o Block(4, 4) \o Block(2, 4) \o Block(3, 3)

Untitled(k) ==
    [j \in 1..k |->
        [Collected[j] EXCEPT !.title = IF j % 3 = 1 THEN None
                                       ELSE IF j % 3 = 2 THEN EmptyStr
                                       ELSE NaN]]

Repeats(d) == [j \in 1..d |-> Collected[((5 * j - 1) % Len(Collected)) + 1]]

ScenarioFrames ==
    {Untitled(k) \o Collected \o Repeats(d) : k \in 0..MaxUntitled, d \in 0..MaxRepeats}

\* pages of three kinds: jobs in Bangalore posted hours ago, jobs in
\* Bengaluru posted years ago, and jobs in Mumbai posted months ago
MaxMixed == 10

MixedPages ==
    {Block(1, a) \o Block(4, b) \o Block(2, c) :
        a \in (MaxMixed - 1)..MaxMixed, b \in 5..6, c \in 4..5}

\* The names the city goes by, and pages of jobs there: n rows under one
\* name, one row under each name, and m rows in Mumbai
Aliases ==
    << <<"B","a","n","g","a","l","o","r","e">>,                  \* 'Bangalore'
       <<"B","e","n","g","a","l","u","r","u">>,                  \* 'Bengaluru'
       <<"B","a","n","g","a","l","u","r","u">>,                  \* 'Bangaluru'
       <<"B","L","R">> >>                                         \* 'BLR'

AliasChoices == {<<Aliases[k]>> : k \in 1..Len(Aliases)}

MinAliasRows == 10
MaxAliasRows == 14
MaxElsewhere == 4

AliasPage(k, n, m) ==
    [i \in 1..n |-> [Row(1, i) EXCEPT !.location = Aliases[k]]]
        \o [j \in 1..Len(Aliases) |-> [Row(3, j) EXCEPT !.location = Aliases[j]]]
        \o Block(2, m)

AliasPages ==
    {AliasPage(k, n, m) :
        k \in 1..Len(Aliases), n \in MinAliasRows..MaxAliasRows, m \in 0..MaxElsewhere}

InitAlias ==
    /\ pc = "idle"
    /\ frame \in AliasPages
    /\ df = <<>>
    /\ prev = <<>>
    /\ arg = NoArg
    /\ futures = NoFutures

\* process_jobs alone, on the small frames and on full pages: pages long
\* enough for every filter stage to run
FullPages ==
    {Block(a, MaxMajor) \o Block(b, MaxMinor) \o ExtraRows(Block(a, MaxMajor), x) :
        a \in 1..Len(Kinds), b \in 1..Len(Kinds), x \in {0, MaxExtra}}

InitProcess ==
    /\ pc = "idle"
    /\ frame \in SmallFrames \cup FullPages \cup ScenarioFrames \cup MixedPages
    /\ df = <<>>
    /\ prev = <<>>
    /\ arg = NoArg
    /\ futures = NoFutures

\* the ranker alone, on the frames of dated rows
InitRank ==
    /\ pc = "idle"
    /\ frame \in RankFrames
    /\ df = <<>>
    /\ prev = <<>>
    /\ arg = NoArg
    /\ futures = NoFutures

---------------------------------------------------------------------------
(* process_jobs, one action per stage                                      *)

MinJobsForFiltering == 20
StageFloor == 15

\* len(filtered) >= max(15, len(processed_df) * 0.5)
StageAccepts(kept, total) == kept >= StageFloor /\ 2 * kept >= total

\* if keywords and len(keywords) > 0 / if locations and len(locations) > 0
Given(list) == list # NoneList /\ list # <<>>

\* lines 475-479
KeywordStage(f, keywords) ==
    IF Given(keywords) /\ Len(f) >= MinJobsForFiltering
    THEN LET keyword_filtered == filter_jobs_by_keywords(f, keywords)
         IN  IF StageAccepts(Len(keyword_filtered), Len(f)) THEN keyword_filtered ELSE f
    ELSE f

\* lines 482-486
LocationStage(f, locations) ==
    IF Given(locations) /\ Len(f) >= MinJobsForFiltering
    THEN LET location_filtered == filter_jobs_by_location(f, locations)
         IN  IF StageAccepts(Len(location_filtered), Len(f)) THEN location_filtered ELSE f
    ELSE f

\* a recency stage that filters a working set of any size
RecentStage_Unguarded(f, days, now) == filter_recent_jobs(f, days, now)

\* a recency stage whose guard looks at the size of the input of
\* process_jobs
RecentStage_OnInput(f, days, now) ==
    IF Len(frame) >= MinJobsForFiltering THEN filter_recent_jobs(f, days, now) ELSE f

\* lines 489-490
RecentStage(f, days, now) ==
    IF Len(f) >= MinJobsForFiltering THEN filter_recent_jobs(f, days, now) ELSE f

\* processed_df bound to jobs_df itself: the defaults of lines 458-460 are
\* assigned into the caller's frame
InputAfterFill_Shared(jobs_df) == FillDefaults(jobs_df)

\* line 455: processed_df is a copy, so the caller's frame keeps its values
\* when lines 458-460 assign the defaults
InputAfterFill(jobs_df) == jobs_df

\* lines 451-460: an empty frame is returned at once; otherwise the copy
\* gets its defaults
PJ_Fill ==
    /\ pc = "idle"
    /\ prev' = frame
    /\ arg' = NoArg
    /\ IF frame = <<>>
       THEN pc' = "pj_done" /\ df' = frame /\ frame' = frame
       ELSE pc' = "pj_filled" /\ df' = FillDefaults(frame) /\ frame' = InputAfterFill(frame)
    /\ UNCHANGED futures

\* line 463
PJ_TitleDrop ==
    /\ pc = "pj_filled"
    /\ prev' = df
    /\ df' = TitleDrop(df)
    /\ pc' = "pj_dropped"
    /\ UNCHANGED <<frame, arg, futures>>

\* line 466
PJ_Enrich ==
    /\ pc = "pj_dropped"
    /\ prev' = df
    /\ IF EnrichRaises(df)
       THEN pc' = "pj_raised" /\ df' = df
       ELSE pc' = "pj_enriched" /\ df' = enrich_job_data(df)
    /\ UNCHANGED <<frame, arg, futures>>

\* line 469
PJ_Dedup ==
    /\ pc = "pj_enriched"
    /\ prev' = df
    /\ IF DedupRaises(df)
       THEN pc' = "pj_raised" /\ df' = df
       ELSE pc' = "pj_deduped" /\ df' = remove_duplicates(df)
    /\ UNCHANGED <<frame, arg, futures>>

\* lines 475-479
PJ_Keywords ==
    /\ pc = "pj_deduped"
    /\ \E keywords \in KeywordChoices :
         /\ arg' = [NoArg EXCEPT !.list = keywords]
         /\ IF Given(keywords) /\ Len(df) >= MinJobsForFiltering
               /\ KeywordsRaises(df, keywords)
            THEN pc' = "pj_raised" /\ df' = df
            ELSE pc' = "pj_keywords" /\ df' = KeywordStage(df, keywords)
    /\ prev' = df
    /\ UNCHANGED <<frame, futures>>

\* lines 482-486
PJ_Locations ==
    /\ pc = "pj_keywords"
    /\ \E locations \in LocationChoices :
         /\ arg' = [NoArg EXCEPT !.list = locations]
         /\ IF Given(locations) /\ Len(df) >= MinJobsForFiltering
               /\ LocationRaises(df, locations)
            THEN pc' = "pj_raised" /\ df' = df
            ELSE pc' = "pj_locations" /\ df' = LocationStage(df, locations)
    /\ prev' = df
    /\ UNCHANGED <<frame, futures>>

\* lines 489-490
PJ_Recent ==
    /\ pc = "pj_locations"
    /\ \E days \in DaysChoices, now \in NowChoices :
         /\ arg' = [NoArg EXCEPT !.days = days, !.now = now]
         /\ IF Len(df) >= MinJobsForFiltering /\ RecentRaises(df)
            THEN pc' = "pj_raised" /\ df' = df
            ELSE pc' = "pj_recent" /\ df' = RecentStage(df, days, now)
    /\ prev' = df
    /\ UNCHANGED <<frame, futures>>

\* lines 493-496
PJ_Sort ==
    /\ pc = "pj_recent"
    /\ \E sort_by_date \in BOOLEAN, ties \in TieOrders :
         /\ arg' = [NoArg EXCEPT !.sort = sort_by_date,
                                 !.ties = IF sort_by_date THEN ties ELSE "kept"]
         /\ IF sort_by_date /\ SortRaises(df)
            THEN pc' = "pj_raised" /\ df' = df
            ELSE /\ pc' = "pj_done"
                 /\ df' = IF sort_by_date THEN sort_jobs_by_date(df, ties) ELSE df
    /\ prev' = df
    /\ UNCHANGED <<frame, futures>>

---------------------------------------------------------------------------
(* The other functions of the module, called on the frame directly         *)

Call_filter_jobs_by_keywords ==
    /\ pc = "idle"
    /\ \E keywords \in KeywordChoices :
         /\ arg' = [NoArg EXCEPT !.list = keywords]
         /\ IF KeywordsRaises(frame, keywords)
            THEN pc' = "raised" /\ df' = frame
            ELSE pc' = "ret_keywords" /\ df' = filter_jobs_by_keywords(frame, keywords)
    /\ prev' = frame
    /\ UNCHANGED <<frame, futures>>

\* filter_jobs_by_location called with one of the lists in choices
CallFilterByLocation(choices) ==
    /\ pc = "idle"
    /\ \E locations \in choices :
         /\ arg' = [NoArg EXCEPT !.list = locations]
         /\ IF LocationRaises(frame, locations)
            THEN pc' = "raised" /\ df' = frame
            ELSE pc' = "ret_location" /\ df' = filter_jobs_by_location(frame, locations)
    /\ prev' = frame
    /\ UNCHANGED <<frame, futures>>

Call_filter_jobs_by_location == CallFilterByLocation(LocationChoices)

\* the same call with one name of the city as the only location
Call_filter_jobs_by_location_alias == CallFilterByLocation(AliasChoices)

Call_filter_recent_jobs ==
    /\ pc = "idle"
    /\ \E days \in DaysChoices, now \in NowChoices :
         /\ arg' = [NoArg EXCEPT !.days = days, !.now = now]
         /\ IF RecentRaises(frame)
            THEN pc' = "raised" /\ df' = frame
            ELSE pc' = "ret_recent" /\ df' = filter_recent_jobs(frame, days, now)
    /\ prev' = frame
    /\ UNCHANGED <<frame, futures>>

\* the clean_title and clean_company columns stay in the frame handed over
Call_remove_duplicates ==
    /\ pc = "idle"
    /\ arg' = NoArg
    /\ IF DedupRaises(frame)
       THEN pc' = "raised" /\ df' = frame
       ELSE pc' = "ret_dedup" /\ df' = remove_duplicates(frame)
    /\ prev' = frame
    /\ frame' = IF \E i \in 1..Len(frame) : IsNull(frame[i].title) THEN frame
                ELSE IF DedupRaises(frame) THEN CleanTitleColumn(frame)
                ELSE CleanColumns(frame)
    /\ UNCHANGED futures

\* the recency_score column stays in the frame handed over
Call_sort_jobs_by_date ==
    /\ pc = "idle"
    /\ \E ties \in TieOrders :
         /\ arg' = [NoArg EXCEPT !.sort = TRUE, !.ties = ties]
         /\ IF SortRaises(frame)
            THEN pc' = "raised" /\ df' = frame
            ELSE pc' = "ret_sort" /\ df' = sort_jobs_by_date(frame, ties)
    /\ prev' = frame
    /\ frame' = IF SortRaises(frame) THEN frame ELSE ScoreColumn(frame)
    /\ UNCHANGED futures

\* enrich_job_data rewrites the frame it is given and returns it; the
\* second call is on the frame the first call returned
Call_enrich_job_data ==
    /\ pc \in {"idle", "ret_enrich"}
    /\ arg' = NoArg
    /\ prev' = frame
    /\ IF EnrichRaises(frame)
       THEN pc' = "raised" /\ df' = frame /\ frame' = EnrichedUntilRaise(frame)
       ELSE /\ pc' = IF pc = "idle" THEN "ret_enrich" ELSE "ret_enrich_again"
            /\ df' = enrich_job_data(frame)
            /\ frame' = enrich_job_data(frame)
    /\ UNCHANGED futures

Next ==
    \/ PJ_Fill
    \/ PJ_TitleDrop
    \/ PJ_Enrich
    \/ PJ_Dedup
    \/ PJ_Keywords
    \/ PJ_Locations
    \/ PJ_Recent
    \/ PJ_Sort
    \/ Call_filter_jobs_by_keywords
    \/ Call_filter_jobs_by_location
    \/ Call_filter_recent_jobs
    \/ Call_remove_duplicates
    \/ Call_sort_jobs_by_date
    \/ Call_enrich_job_data

Spec == Init /\ [][Next]_vars

NextProcess ==
    \/ PJ_Fill
    \/ PJ_TitleDrop
    \/ PJ_Enrich
    \/ PJ_Dedup
    \/ PJ_Keywords
    \/ PJ_Locations
    \/ PJ_Recent
    \/ PJ_Sort

SpecProcess == InitProcess /\ [][NextProcess]_vars

\* remove_duplicates alone, and filter_recent_jobs alone, on the frames a
\* caller may hand over
NextDedup == Call_remove_duplicates

SpecDedup == Init /\ [][NextDedup]_vars

NextRecent == Call_filter_recent_jobs

SpecRecent == Init /\ [][NextRecent]_vars

\* filter_jobs_by_location alone, on the pages of city names
NextAlias == Call_filter_jobs_by_location_alias

SpecAlias == InitAlias /\ [][NextAlias]_vars

NextRank == Call_sort_jobs_by_date

SpecRank == InitRank /\ [][NextRank]_vars
---------------------------------------------------------------------------
(* run_job_search (enhanced_main.py): the API fetches and the hand-over    *)
(* of the merged frame to process_jobs                                     *)

\* api_classes, by the source name each API writes in its rows
api_classes ==
    << SrcIndeed,
       SrcLinkedIn,
       SrcNaukri,
       SrcFoundit,
       <<"T","i","m","e","s","J","o","b","s">>,   \* 'TimesJobs'
       <<"S","h","i","n","e">> >>                 \* 'Shine'

\* ThreadPoolExecutor(max_workers=3)
max_workers == 3

\* the aggressive scraping runs when fewer rows than this were merged
MinJobsBeforeAggressive == 10

\* a future: where its task stands, and what future.result() gives
NewFuture == [state |-> "new", result |-> "none"]

\* what a fetch can end with: a frame with rows, an empty frame (which is
\* also what search_with_api returns after catching an exception), or
\* something on which the collecting code raises
Outcomes == {"rows", "empty", "error"}

\* the frame one API returns when it found something
ApiRows(a) == << [Kinds[1] EXCEPT !.source = api_classes[a]] >>

Apis == 1..Len(api_classes)

InState(s) == {a \in Apis : futures[a].state = s}

\* the next api_class the submitting comprehension, or the sequential
\* loop, comes to
NextNew == CHOOSE a \in InState("new") : \A b \in InState("new") : a <= b

\* the executor's work queue is first in, first out
NextPending == CHOOSE a \in InState("pending") : \A b \in InState("pending") : a <= b

\* a loop that stops at the first future yielded
LoopDone_First == InState("yielded") # {}

\* as_completed is exhausted: it has yielded every future
LoopDone == InState("yielded") = Apis

\* executor.shutdown(wait=True) at the end of the with block returns
ExecutorIdle == InState("pending") = {} /\ InState("running") = {}

\* all_jobs = jobs_df: a merge that forgets what was merged before
Merged_Overwrite(a, result) == IF result = "rows" THEN ApiRows(a) ELSE frame

\* pd.concat([all_jobs, jobs_df]) when jobs_df is not empty
Merged(a, result) == IF result = "rows" THEN frame \o ApiRows(a) ELSE frame

InitRun ==
    /\ pc \in {"run_submit", "run_sequential"}
    /\ frame = <<>>
    /\ df = <<>>
    /\ prev = <<>>
    /\ arg = NoArg
    /\ futures = [a \in Apis |-> NewFuture]

\* executor.submit for the next api_class
Run_Submit ==
    /\ pc = "run_submit"
    /\ futures' = [futures EXCEPT ![NextNew].state = "pending"]
    /\ pc' = IF InState("new") = {NextNew} THEN "run_collect" ELSE pc
    /\ UNCHANGED <<frame, df, prev, arg>>

\* a free worker thread takes the oldest queued task
Worker_Start ==
    /\ InState("pending") # {}
    /\ Cardinality(InState("running")) < max_workers
    /\ futures' = [futures EXCEPT ![NextPending].state = "running"]
    /\ UNCHANGED <<pc, frame, df, prev, arg>>

\* search_with_api returns in a worker thread
Worker_Finish ==
    \E a \in InState("running"), result \in Outcomes :
        /\ futures' = [futures EXCEPT ![a] = [state |-> "finished", result |-> result]]
        /\ UNCHANGED <<pc, frame, df, prev, arg>>

\* one turn of the as_completed loop: a finished future is yielded and its
\* rows are merged; an exception is caught and reported
Run_Collect ==
    /\ pc = "run_collect"
    /\ \E a \in InState("finished") :
        /\ futures' = [futures EXCEPT ![a].state = "yielded"]
        /\ frame' = Merged(a, futures[a].result)
    /\ UNCHANGED <<pc, df, prev, arg>>

\* the loop ends and the with block is left
Run_ExitWith ==
    /\ pc = "run_collect"
    /\ LoopDone
    /\ ExecutorIdle
    /\ pc' = "run_apis_done"
    /\ UNCHANGED <<frame, df, prev, arg, futures>>

\* use_concurrent=False: the next API is called and merged in the main
\* thread; nothing catches what jobs_df.empty raises here
Run_Sequential ==
    /\ pc = "run_sequential"
    /\ \E result \in Outcomes :
        /\ futures' = [futures EXCEPT ![NextNew] = [state |-> "yielded", result |-> result]]
        /\ frame' = Merged(NextNew, result)
        /\ pc' = IF result = "error" THEN "run_raised"
                 ELSE IF InState("new") = {NextNew} THEN "run_apis_done"
                 ELSE pc
    /\ UNCHANGED <<df, prev, arg>>

\* the OpenAI-assisted and the aggressive scraping, which may add rows;
\* scraped_sources is assigned only when OPENAI_API_KEY is set, so without
\* it the aggressive scraping raises NameError
Run_Scrape ==
    /\ pc = "run_apis_done"
    /\ \E openai_api_key \in BOOLEAN, found \in BOOLEAN :
        LET scraped == IF openai_api_key /\ found
                       THEN << [Kinds[1] EXCEPT !.source = S_Other] >>
                       ELSE <<>>
        IN  IF ~openai_api_key /\ Len(frame) < MinJobsBeforeAggressive
            THEN pc' = "run_raised" /\ frame' = frame
            ELSE pc' = "run_scraped" /\ frame' = frame \o scraped
    /\ UNCHANGED <<df, prev, arg, futures>>

\* process_jobs(all_jobs, ...) is called
Run_ProcessJobs ==
    /\ pc = "run_scraped"
    /\ pc' = "run_process"
    /\ prev' = frame
    /\ UNCHANGED <<frame, df, arg, futures>>

NextRun ==
    \/ Run_Submit
    \/ Worker_Start
    \/ Worker_Finish
    \/ Run_Collect
    \/ Run_ExitWith
    \/ Run_Sequential
    \/ Run_Scrape
    \/ Run_ProcessJobs

SpecRun == InitRun /\ [][NextRun]_vars


---------------------------------------------------------------------------
(* Properties                                                              *)

\* the control points of process_jobs from the deduplication on
AfterDedup == {"pj_deduped", "pj_keywords", "pj_locations", "pj_recent", "pj_done"}

\* the control points of process_jobs at which a stage has just run
AfterStage ==
    {"pj_filled", "pj_dropped", "pj_enriched"} \cup AfterDedup

\* the i-th smallest member of a set of numbers
Nth(S, i) == CHOOSE x \in S : Cardinality({y \in S : y < x}) = i - 1

\* C1: no two records in the output of process_jobs share the dedup key
\* (title lowercased without punctuation, company lowercased without
\* punctuation); the same holds of the working set at every stage after the
\* deduplication.
C1_DedupKeysDistinct ==
    pc \in AfterDedup =>
        Cardinality({DedupKey(df[i]) : i \in 1..Len(df)}) = Len(df)

\* process_jobs returned at least two records for a frame in which two
\* titled rows shared a key only after cleaning
C1_Witness ==
    /\ pc = "pj_done"
    /\ Len(df) >= 2
    /\ \E i, j \in 1..Len(frame) :
         /\ i < j
         /\ HasTitle(frame[i]) /\ HasTitle(frame[j])
         /\ ~IsNull(frame[i].company) /\ ~IsNull(frame[j].company)
         /\ frame[i].title # frame[j].title
         /\ CleanKey(frame[i].title) = CleanKey(frame[j].title)
         /\ CleanKey(CleanCompany(frame[i].company))
              = CleanKey(CleanCompany(frame[j].company))

\* C2: process_jobs returns at most as many records as it was given, and no
\* stage (title drop, enrich, dedup, keyword, location and recency filter,
\* sort) leaves more records than it found.
C2_NonExpansion ==
    pc \in AfterStage => Len(df) <= Len(prev) /\ Len(df) <= Len(frame)

\* the keyword stage of process_jobs has just removed records
C2_Witness ==
    pc = "pj_keywords" /\ Len(df) < Len(prev) /\ Len(prev) < Len(frame)

\* a field that holds a non-empty string
Populated(v) == ~IsNull(v) /\ v # EmptyStr

\* C3: after default filling, title drop and enrich_job_data every record
\* has all six fields populated with non-empty strings.
C3_AllFieldsPopulated ==
    pc = "pj_enriched" =>
        \A i \in 1..Len(df) :
            /\ Populated(df[i].title) /\ Populated(df[i].company)
            /\ Populated(df[i].location) /\ Populated(df[i].date)
            /\ Populated(df[i].link) /\ Populated(df[i].source)

\* C4: enrich_job_data applied to a frame it has already normalized returns
\* the same frame.
C4_EnrichIdempotent == pc = "ret_enrich_again" => df = prev

\* C5: the keyword and location filters return a frame of fewer than 15
\* rows unchanged when called directly, and process_jobs leaves a working
\* set of fewer than 20 rows unchanged in its keyword and location stages,
\* whatever the keywords and locations.
C5_SmallSetPassthrough ==
    /\ pc \in {"ret_keywords", "ret_location"} /\ Len(prev) < 15 => df = prev
    /\ pc \in {"pj_keywords", "pj_locations"} /\ Len(prev) < 20 => df = prev

\* the location filter was called directly on 14 rows, one of which neither
\* location predicate accepts
C5_Witness ==
    /\ pc = "ret_location"
    /\ Len(prev) = 14
    /\ Given(arg.list)
    /\ \E i \in 1..Len(prev) :
         /\ ~LocationStrict(prev[i], LocationVariations(arg.list))
         /\ ~LocationLoose(prev[i])

\* C6: each of filter_jobs_by_keywords, filter_jobs_by_location and
\* filter_recent_jobs returns a non-empty frame for every non-empty frame.
C6_NeverEmpty ==
    pc \in {"ret_keywords", "ret_location", "ret_recent"} /\ prev # <<>> => df # <<>>

\* C7: process_jobs never raises to its caller.
C7_ProcessJobsNeverRaises == pc # "pj_raised"

\* C8: the title drop of process_jobs removes exactly the rows whose title
\* is null or empty and keeps every other row, in order, with a null
\* company, location or date replaced by 'Unknown', 'Bangalore' and
\* 'Recent'; no row of the output has a null or empty title.
C8_TitleDropExact ==
    /\ pc = "pj_dropped" =>
         LET titled == {i \in 1..Len(frame) :
                           frame[i].title \notin {None, NaN, EmptyStr}}
         IN  /\ Len(df) = Cardinality(titled)
             /\ \A p \in 1..Len(df) :
                  LET raw == frame[Nth(titled, p)]
                  IN  /\ df[p].title = raw.title
                      /\ df[p].link = raw.link
                      /\ df[p].source = raw.source
                      /\ df[p].company =
                           IF raw.company \in {None, NaN} THEN DefaultCompany ELSE raw.company
                      /\ df[p].location =
                           IF raw.location \in {None, NaN} THEN DefaultLocation ELSE raw.location
                      /\ df[p].date =
                           IF raw.date \in {None, NaN} THEN DefaultDate ELSE raw.date
    /\ pc = "pj_done" =>
         \A i \in 1..Len(df) : df[i].title \notin {None, NaN, EmptyStr}

\* the title drop removed a row with an empty title and kept a titled row
\* whose company was missing
C8_Witness ==
    /\ pc = "pj_dropped"
    /\ \E i \in 1..Len(frame) : frame[i].title = EmptyStr
    /\ \E i \in 1..Len(frame) : frame[i].title # EmptyStr /\ IsNull(frame[i].company)
    /\ \E p \in 1..Len(df) : df[p].company = DefaultCompany

\* a link with the scheme prefix and at least 10 characters
GoodLink(link) ==
    /\ ~IsNull(link)
    /\ StartsWith(link, HttpPrefix) \/ StartsWith(link, HttpsPrefix)
    /\ Len(link) >= 10

FallbackBases == {IndeedUrl, NaukriUrl, LinkedInUrl, FounditUrl, GoogleUrl}

\* C9: after enrich_job_data every link has the scheme prefix and at least
\* 10 characters; a link that had both is unchanged, any other link is
\* replaced by a synthesized search link.
C9_LinkRepair ==
    pc \in {"pj_enriched", "ret_enrich"} =>
        /\ Len(df) = Len(prev)
        /\ \A i \in 1..Len(df) :
             /\ GoodLink(df[i].link)
             /\ GoodLink(prev[i].link) => df[i].link = prev[i].link
             /\ ~GoodLink(prev[i].link) =>
                  /\ df[i].link # prev[i].link
                  /\ \E base \in FallbackBases : StartsWith(df[i].link, base)

\* enrich_job_data repaired a link that had the prefix but was too short
\* and a link without the prefix, and kept a good one
C9_Witness ==
    /\ pc = "pj_enriched"
    /\ \E i \in 1..Len(prev) : prev[i].link = L_short
    /\ \E i \in 1..Len(prev) : prev[i].link = L_noscheme
    /\ \E i \in 1..Len(prev) : prev[i].link = L_valid /\ df[i].link = L_valid

\* C10: remove_duplicates keeps, for every dedup key, exactly the first row
\* of the frame with that key, and keeps the kept rows in frame order.
C10_KeepsFirstPerKey ==
    pc \in {"pj_deduped", "ret_dedup"} =>
        LET keyed == {<<i, DedupKey(prev[i])>> : i \in 1..Len(prev)}
            firsts == {p[1] : p \in {p \in keyed :
                                        \A q \in keyed : q[2] = p[2] => p[1] <= q[1]}}
        IN  /\ Len(df) = Cardinality(firsts)
            /\ \A p \in 1..Len(df) : df[p] = prev[Nth(firsts, p)]

\* remove_duplicates dropped a row between two rows it kept
C10_Witness ==
    /\ pc = "ret_dedup"
    /\ Len(df) >= 2
    /\ \E i, j, k \in 1..Len(prev) :
         /\ i < j /\ j < k
         /\ DedupKey(prev[i]) = DedupKey(prev[j])
         /\ prev[i] # prev[j]
         /\ DedupKey(prev[k]) # DedupKey(prev[i])
         /\ \A h \in 1..(k - 1) : DedupKey(prev[h]) # DedupKey(prev[k])

\* the rows of f whose recency score is score, in the order of f
WithScore(f, score) == SelectSeq(f, LAMBDA r : recency_score(r.date) = score)

\* the scores of the rows of f
Scores(f) == {recency_score(f[i].date) : i \in 1..Len(f)}

\* the ranker has just returned: sort_jobs_by_date called directly, or the
\* last stage of process_jobs with sort_by_date set
Ranked == pc \in {"ret_sort", "pj_done"} /\ arg.sort

\* C11: the sort of sort_jobs_by_date is stable: the rows of one recency
\* score come out in the relative order they went in.
C11_SortStable ==
    Ranked => \A score \in Scores(prev) : WithScore(df, score) = WithScore(prev, score)

\* C12: when sorting is requested the output of process_jobs is in
\* non-increasing order of recency score and is a permutation of the frame
\* that entered the ranker; when it is not requested the frame that left the
\* filters is returned as it is.
C12_SortedPermutation ==
    /\ Ranked =>
         /\ \A i \in 1..(Len(df) - 1) :
              recency_score(df[i].date) >= recency_score(df[i + 1].date)
         /\ Len(df) = Len(prev)
         /\ \A i \in 1..Len(prev) :
              Count(df, LAMBDA r : r = prev[i]) = Count(prev, LAMBDA r : r = prev[i])
    /\ pc = "pj_done" /\ ~arg.sort => df = prev

\* process_jobs sorted a frame that was not in order: a row moved in front
\* of a row of a lower score
C12_Witness ==
    /\ pc = "pj_done" /\ arg.sort
    /\ df # prev
    /\ \E i, j \in 1..Len(prev) :
         i < j /\ recency_score(prev[i].date) < recency_score(prev[j].date)

\* the tier of a date: 1 for 'h hours ago' with h < 200, 2 for 'today', 3 for
\* 'N days ago' with 2 <= N < 200, 4 for '1 week ago', 5 for a date that
\* holds none of the words the ranker looks for, 0 for any other date
Tier(d) ==
    LET k == FirstNumber(d)
    IN  IF k >= 0 /\ k < 200 /\ d = HoursAgo(k) THEN 1
        ELSE IF d = D_today THEN 2
        ELSE IF k >= 2 /\ k < 200 /\ d = DaysAgo(k) THEN 3
        ELSE IF d = D_1week THEN 4
        ELSE IF \A w \in {W_just_now, W_hour, W_day, W_week,
                          <<"m","i","n","u","t","e">>,
                          <<"m","o","m","e","n","t","s"," ","a","g","o">>} :
                   ~Contains(w, Lower(d)) THEN 5
        ELSE 0

\* C13: in the ranked output a row dated 'h hours ago' (h < 200) stands
\* before every row dated 'today', which stands before every row dated
\* 'N days ago' (2 <= N < 200), which stands before every row dated
\* '1 week ago', which stands before every row with an unrecognized date.
C13_RankingTiers ==
    Ranked =>
        \A p, q \in {<<i, Tier(df[i].date)>> : i \in 1..Len(df)} :
            p[2] > 0 /\ p[2] < q[2] => p[1] < q[1]

\* the ranker returned the dates today, 3 days ago, 2 hours ago, 1 week ago
\* as 2 hours ago, today, 3 days ago, 1 week ago, all before 'soon'
C13_Witness ==
    /\ pc = "ret_sort"
    /\ Len(prev) = 5
    /\ [i \in 1..5 |-> Tier(prev[i].date)] = <<5, 2, 3, 1, 4>>
    /\ prev[3].date = DaysAgo(3) /\ prev[4].date = HoursAgo(2)
    /\ [i \in 1..5 |-> df[i].date]
         = <<HoursAgo(2), D_today, DaysAgo(3), D_1week, prev[1].date>>

\* C14: process_jobs and each function of the module (the three filters,
\* remove_duplicates, sort_jobs_by_date, enrich_job_data), given an empty
\* frame, returns an empty frame and does not raise.
C14_IdentityOnEmpty ==
    pc # "idle" /\ prev = <<>> => df = <<>> /\ pc \notin {"raised", "pj_raised"}

\* process_jobs was given rows none of which had a title, ran its stages on
\* the empty frame the title drop left and returned it
C14_Witness ==
    /\ pc = "pj_done"
    /\ frame # <<>>
    /\ prev = <<>>
    /\ df = <<>>

\* a row whose date parse_date_string cannot parse at the time of the call
Unparsed(r) == ~parse_date_string(r.date, arg.now).ok

\* C15: filter_recent_jobs never removes a row whose date does not parse,
\* whatever the lookback window: the rows with such dates leave the filter
\* as they entered it.
C15_UnparsedKept ==
    pc \in {"ret_recent", "pj_recent"} => Rows(df, Unparsed) = Rows(prev, Unparsed)

\* filter_recent_jobs removed rows and the frame held a row whose date does
\* not parse
C15_Witness ==
    /\ pc = "ret_recent"
    /\ Len(df) < Len(prev)
    /\ \E i \in 1..Len(prev) : Unparsed(prev[i])

\* a row whose location says 'remote' or 'hybrid'
SaysRemote(r) ==
    \/ Contains(W_remote, Lower(r.location))
    \/ Contains(W_hybrid, Lower(r.location))

\* C16: whenever filter_jobs_by_location returns fewer rows than it was
\* given, every row whose location contains 'remote' or 'hybrid' is among
\* them, whatever the configured locations.
C16_RemoteAlwaysAccepted ==
    pc \in {"ret_location", "pj_locations"} /\ Len(df) < Len(prev)
        => Rows(df, SaysRemote) = Rows(prev, SaysRemote)

\* what the stage of process_jobs that has just run makes of a frame f,
\* with the arguments the stage was given
StageOf(f) ==
    CASE pc = "pj_filled" -> FillDefaults(f)
      [] pc = "pj_dropped" -> TitleDrop(f)
      [] pc = "pj_enriched" -> enrich_job_data(f)
      [] pc = "pj_deduped" -> remove_duplicates(f)
      [] pc = "pj_keywords" -> KeywordStage(f, arg.list)
      [] pc = "pj_locations" -> LocationStage(f, arg.list)
      [] pc = "pj_recent" -> RecentStage(f, arg.days, arg.now)
      [] pc = "pj_done" -> IF arg.sort THEN sort_jobs_by_date(f, arg.ties) ELSE f

\* the frame f with every source set to s, and with every synthesized link
\* made a different link
OtherSource(f, s) ==
    [i \in 1..Len(f) |->
        [f[i] EXCEPT !.source = s,
                     !.link = IF \E base \in FallbackBases : StartsWith(@, base)
                              THEN @ \o <<"x">> ELSE @]]

\* the frame f without its sources and links
SourceBlind(f) ==
    [i \in 1..Len(f) |-> [f[i] EXCEPT !.source = EmptyStr, !.link = EmptyStr]]

\* C17: the source never influences what process_jobs retains: at every
\* stage, the same frame with other sources (and other synthesized links)
\* leaves the stage with the same rows in the same order, up to source and
\* link.
C17_SourceBlind ==
    pc \in AfterStage =>
        \A s \in {SrcNaukri, S_Other} :
            SourceBlind(StageOf(OtherSource(prev, s))) = SourceBlind(df)

\* the deduplication inside process_jobs has dropped a row whose source
\* differs from the source of the row kept for its key
C17_Witness ==
    /\ pc = "pj_deduped"
    /\ Len(df) < Len(prev)
    /\ \E i, j \in 1..Len(prev) :
         /\ i < j
         /\ DedupKey(prev[i]) = DedupKey(prev[j])
         /\ prev[i].source # prev[j].source

\* C18: process_jobs is called only after every fetch is joined: when it is
\* called no fetch task is queued, running or finished but not yet
\* collected, and the rows of every fetch that returned rows are in the
\* frame it is given.
C18_ProcessAfterJoin ==
    pc = "run_process" =>
        /\ \A a \in Apis : futures[a].state = "yielded"
        /\ \A a \in Apis :
             futures[a].result = "rows" =>
                 \E i \in 1..Len(prev) : prev[i].source = api_classes[a]

\* process_jobs has been called after concurrent fetches, one of which
\* finished after a fetch submitted later had already been collected
C18_Witness ==
    /\ pc = "run_process"
    /\ Len(prev) >= 2
    /\ \E a, b \in Apis :
         /\ a < b
         /\ prev[1].source = api_classes[b]
         /\ prev[2].source = api_classes[a]

\* the rows of the input that came without a title
UntitledIn(f) == {i \in 1..Len(f) : ~HasTitle(f[i])}

\* how many titled rows of the input repeat the normalized title and
\* company of an earlier row, once the fields are cleaned
RepeatsIn(f) ==
    LET working == enrich_job_data(TitleDrop(FillDefaults(f)))
    IN  Len(working) - Cardinality({DedupKey(working[i]) : i \in 1..Len(working)})

\* C19: of n input rows with k untitled and d more that repeat an earlier
\* row, n-k are left after the title drop and n-k-d after the
\* deduplication; when n-k-d is below 20 no filter removes a row and the
\* output has n-k-d rows.
C19_EndToEndCounts ==
    LET n == Len(frame)
        k == Cardinality(UntitledIn(frame))
        d == RepeatsIn(frame)
    IN  /\ pc \in {"pj_dropped", "pj_enriched"} => Len(df) = n - k
        /\ pc = "pj_deduped" => Len(df) = n - k - d
        /\ pc \in AfterDedup /\ n - k - d < MinJobsForFiltering => Len(df) = n - k - d

\* the scenario of 25 rows, 5 untitled and 3 repeated, has gone through
\* process_jobs, and 17 rows came out
C19_Witness ==
    /\ pc = "pj_done"
    /\ Len(frame) = 25
    /\ Cardinality(UntitledIn(frame)) = 5
    /\ RepeatsIn(frame) = 3
    /\ Len(df) = 17

\* The punctuation that percent-encoding replaces, with the codes; letters,
\* digits and - . _ ~ stay as they are
UrlReserved ==
    << <<"!", "2", "1">>, <<"#", "2", "3">>, <<"$", "2", "4">>, <<"%", "2", "5">>, <<"&", "2", "6">>,
       <<"'", "2", "7">>, <<"(", "2", "8">>, <<")", "2", "9">>, <<"*", "2", "A">>, <<"+", "2", "B">>,
       <<",", "2", "C">>, <<"/", "2", "F">>, <<":", "3", "A">>, <<";", "3", "B">>, <<"<", "3", "C">>,
       <<"=", "3", "D">>, <<">", "3", "E">>, <<"?", "3", "F">>, <<"@", "4", "0">>, <<"[", "5", "B">>,
       <<"]", "5", "D">>, <<"^", "5", "E">>, <<"{", "7", "B">>, <<"|", "7", "C">>, <<"}", "7", "D">> >>

\* one character of a query string: a space becomes '+', a reserved
\* character its percent code
UrlEncodeChar(c) ==
    IF c = " " THEN <<"+">>
    ELSE IF \E k \in 1..Len(UrlReserved) : UrlReserved[k][1] = c
    THEN LET k == CHOOSE k \in 1..Len(UrlReserved) : UrlReserved[k][1] = c
         IN  <<"%", UrlReserved[k][2], UrlReserved[k][3]>>
    ELSE <<c>>

UrlEncode(s) == Concat([i \in 1..Len(s) |-> UrlEncodeChar(s[i])])

\* the search page of the site a source names, the web search otherwise
SiteOf(source) ==
    IF source = SrcIndeed THEN IndeedUrl
    ELSE IF source = SrcNaukri THEN NaukriUrl
    ELSE IF source = SrcLinkedIn THEN LinkedInUrl
    ELSE IF source = SrcFoundit THEN FounditUrl
    ELSE GoogleUrl

\* C20: a row that needs a fallback link gets a search link on the site of
\* its source (the web search for any other source); the link is not empty
\* and holds the URL-encoded title.
C20_FallbackLink ==
    pc \in {"pj_enriched", "ret_enrich"} =>
        \A i \in 1..Len(df) :
            ~GoodLink(prev[i].link) =>
                /\ df[i].link # EmptyStr
                /\ StartsWith(df[i].link, SiteOf(prev[i].source))
                /\ Contains(UrlEncode(prev[i].title), df[i].link)

\* the same without the encoding: the link holds the title with '+' for
\* every space
C20_FallbackLink_Plain ==
    pc \in {"pj_enriched", "ret_enrich"} =>
        \A i \in 1..Len(df) :
            ~GoodLink(prev[i].link) =>
                /\ df[i].link # EmptyStr
                /\ StartsWith(df[i].link, SiteOf(prev[i].source))
                /\ Contains(Replace(prev[i].title, " ", <<"+">>), df[i].link)

\* C21: a filter that returns fewer rows than it was given returns at least
\* max(10, half of what it was given) rows.
C21_RelaxationFloor ==
    pc \in {"ret_keywords", "ret_location", "ret_recent"} /\ Len(df) < Len(prev) =>
        ~BelowFloor(Len(df), Len(prev))

\* the keyword filter fell back to the loose predicate on the frame it was
\* given
FellBack ==
    /\ Len(prev) >= MinRowsToFilter
    /\ BelowFloor(MaskSum([i \in 1..Len(prev) |->
                              KeywordStrict(prev[i], LowerAll(arg.list))]), Len(prev))

\* C22: when filter_jobs_by_keywords falls back to the loose predicate,
\* every row the strict predicate accepts is still returned, and so is
\* every row whose title holds a generic role term.
C22_LooseWidens ==
    pc = "ret_keywords" /\ FellBack =>
        /\ Rows(df, LAMBDA r : KeywordStrict(r, LowerAll(arg.list)))
             = Rows(prev, LAMBDA r : KeywordStrict(r, LowerAll(arg.list)))
        /\ Rows(df, KeywordLoose) = Rows(prev, KeywordLoose)

\* a date of so many weeks ago that it lies before the lookback window
WeeksStale(r) == GroupBefore(Lower(r.date), W_week) * 7 > arg.days

\* a date of today or of some hours ago, inside every lookback window
Fresh(r) == Contains(W_today, Lower(r.date)) \/ DigitsThen(Lower(r.date), W_hour)

\* C23: filter_recent_jobs applies the lookback window itself first: when
\* the rows inside the window are enough (at least max(10, half) of the
\* rows given), a row dated before the window, such as '3 weeks ago' with
\* a lookback of 7 days, is dropped.
C23_StrictWindowFirst ==
    /\ pc = "ret_recent"
    /\ Len(prev) >= MinRowsToFilter
    /\ ~BelowFloor(Count(prev, Fresh), Len(prev))
    => \A i \in 1..Len(df) : ~WeeksStale(df[i])

\* the steps of process_jobs, in the order of its stages
StageSteps ==
    { <<"idle", "pj_filled">>, <<"idle", "pj_done">>,
      <<"pj_filled", "pj_dropped">>,
      <<"pj_dropped", "pj_enriched">>, <<"pj_dropped", "pj_raised">>,
      <<"pj_enriched", "pj_deduped">>, <<"pj_enriched", "pj_raised">>,
      <<"pj_deduped", "pj_keywords">>, <<"pj_deduped", "pj_raised">>,
      <<"pj_keywords", "pj_locations">>, <<"pj_keywords", "pj_raised">>,
      <<"pj_locations", "pj_recent">>, <<"pj_locations", "pj_raised">>,
      <<"pj_recent", "pj_done">>, <<"pj_recent", "pj_raised">> }

\* C24: process_jobs takes its stages in the order defaults, title drop,
\* enrichment, deduplication, keywords, locations, recency, ranking; and a
\* filter stage that finds fewer than 20 rows in the working set at the
\* moment it runs leaves the working set as it is, whatever the size of the
\* input was.
C24_StageOrder ==
    [][ /\ <<pc, pc'>> \in StageSteps
        /\ pc' \in {"pj_keywords", "pj_locations", "pj_recent"}
             /\ Len(df) < MinJobsForFiltering
           => df' = df ]_vars

\* the keyword stage took an input of 20 rows or more below 20 rows, and
\* the recency stage then left alone a working set that filter_recent_jobs
\* would have cut
C24_Witness ==
    /\ pc = "pj_recent"
    /\ Len(frame) >= MinJobsForFiltering
    /\ Len(prev) < MinJobsForFiltering
    /\ df = prev
    /\ filter_recent_jobs(prev, arg.days, arg.now) # prev

\* the N of a date 'N days ago' with N >= 2, and -1 for any other date
DaysCount(d) ==
    IF FirstNumber(d) >= 2 /\ d = DaysAgo(FirstNumber(d)) THEN FirstNumber(d) ELSE -1

\* C25: a date 'N days ago' with N >= 2 has the recency score 500 - N, so
\* of two rows dated 'N days ago' the one with the smaller N ranks earlier.
C25_DaysScore ==
    Ranked =>
        \A p, q \in {<<i, DaysCount(df[i].date)>> : i \in 1..Len(df)} :
            /\ p[2] >= 2 => recency_score(df[p[1]].date) = 500 - p[2]
            /\ p[2] >= 2 /\ p[2] < q[2] => p[1] < q[1]

\* a row located under one of the names of the city
AtAlias(r) == \E k \in 1..Len(Aliases) : r.location = Aliases[k]

\* C26: with one name of the city configured, a row located under any of
\* its names ('Bangalore', 'Bengaluru', 'Bangaluru', 'BLR') is accepted by
\* the location filter.
C26_AliasesSymmetric ==
    pc = "ret_location" /\ arg.list \in AliasChoices =>
        Rows(df, AtAlias) = Rows(prev, AtAlias)

\* the working set of process_jobs after the title drop and the
\* deduplication
Deduplicated(f) == remove_duplicates(enrich_job_data(TitleDrop(FillDefaults(f))))

\* C27: with n rows left after the title drop and the deduplication,
\* process_jobs keeps at least min(n, 10) rows through every filter stage
\* and returns as many, whatever keywords, locations and lookback it is
\* given; a deduplicated set that is not empty never gives an empty output.
C27_PipelineFloor ==
    pc \in AfterDedup /\ frame # <<>> =>
        LET n == Len(Deduplicated(frame))
        IN  /\ Len(df) >= (IF n < FloorCount THEN n ELSE FloorCount)
            /\ n > 0 => df # <<>>

\* process_jobs returned exactly 10 rows of a deduplicated set of 20 or more
C27_Witness ==
    /\ pc = "pj_done"
    /\ Len(df) = FloorCount
    /\ Len(Deduplicated(frame)) >= MinJobsForFiltering

\* C28: process_jobs leaves the frame it was given as it was, rows, values
\* and columns, at every stage, and the frame it returns has the six
\* columns of a job listing and no other.
C28_InputUntouched ==
    [][ /\ <<pc, pc'>> \in StageSteps => frame' = frame
        /\ pc' = "pj_done" => \A i \in 1..Len(df') : DOMAIN df'[i] = JobColumns ]_vars

\* a call that filled defaults, rewrote rows, removed duplicates and sorted
C28_Witness ==
    /\ pc = "pj_done"
    /\ arg.sort
    /\ FillDefaults(frame) # frame
    /\ enrich_job_data(TitleDrop(FillDefaults(frame))) # TitleDrop(FillDefaults(frame))
    /\ RepeatsIn(frame) > 0
    /\ df # <<>>

\* C29: once the API fetches of run_job_search have ended, the scraping
\* that follows ends with the merged frame ready for process_jobs on every
\* path, the one with no OPENAI_API_KEY and fewer than ten merged rows
\* included; no error leaves run_job_search there.
C29_ReachesPipeline ==
    [][pc = "run_apis_done" => pc' = "run_scraped"]_vars

\* the rows of the merged frame that API a wrote
RowsOf(a) == Count(frame, LAMBDA r : r.source = api_classes[a])

\* C30: while the futures are collected and when the with block is left,
\* the merged frame holds the row of every collected fetch that returned
\* rows exactly once and nothing of any other fetch, in whatever order the
\* fetches completed; a fetch that failed adds nothing, and the block is
\* left only when every fetch has been collected.
C30_CompleteMerge ==
    pc \in {"run_collect", "run_apis_done"} =>
        /\ \A a \in Apis :
              RowsOf(a) = IF futures[a].state = "yielded" /\ futures[a].result = "rows"
                          THEN 1 ELSE 0
        /\ Len(frame) = Cardinality({a \in Apis : RowsOf(a) = 1})
        /\ pc = "run_apis_done" => InState("yielded") = Apis

\* the first fetch failed, later ones returned rows and were merged in
\* another order than they were submitted in
C30_Witness ==
    /\ pc = "run_apis_done"
    /\ futures[1].result = "error"
    /\ Len(frame) >= 3
    /\ frame[1].source = api_classes[5]
    /\ frame[2].source = api_classes[2]

====
